---- MODULE Spec2Model ----
(***************************************************************************)
(* Recruitment workflow engine of corto/exchange/main.py: the Job /        *)
(* JobCandidate / InterviewSession lifecycle over the persistent store.    *)
(*                                                                         *)
(* Every request handler is a coroutine; it is cut into steps at the       *)
(* awaits where it reads from or commits to the database, and each         *)
(* request runs in its own session (database/session.py, autoflush off,    *)
(* expire_on_commit off): a step that selects rows keeps a snapshot of     *)
(* them in the request's locals, and a commit writes back only the         *)
(* attributes whose value differs from the snapshot (the unit of work      *)
(* emits UPDATE for changed columns only).                                 *)
(***************************************************************************)
EXTENDS Integers, Sequences, FiniteSets, TLC

\* ---------------------------------------------------------------- bounds
MaxJobs     == 1   \* Job rows ever created
MaxProfiles == 2   \* CandidateProfile rows ever created
MaxJC       == 2   \* JobCandidate rows ever created
MaxRanked   == 2   \* length of the ranking the model call returns
MaxScore    == 1   \* scores the scoring model returns are 0..MaxScore
MaxClock    == 2   \* distinct timestamps datetime.now hands out
MaxQ        == 2   \* distinct non-empty parsed question lists
MaxRows     == 4   \* shortlisted rows of the job that SpecFinalize finalizes
MaxPool     == 6   \* CandidateProfile rows stored when SpecPublish publishes
MaxKeys     == 3   \* keys in GOOGLE_API_KEYS under SpecInvoker
MaxCalls    == 5   \* get_llm calls counted; from MaxCalls on the count stays
MaxShortlist == 5  \* JobCandidate rows the publish of SpecPublish may create
MaxLines     == 3  \* lines of a short question text, of any kind
MaxLong      == 12 \* lines of a long question text (more than QuestionLimit)
MaxResumes   == 2  \* entries the resume mastermind's index may hold
MaxRetries   == 2  \* retries argument of parse_with_llm
MaxSecret    == 2  \* distinct values an API key may have

\* ------------------------------------------------------ program constants
ShortlistLimit == 5   \* resume_best_match: limit = 5, publish: top_5[:5]
TopN           == 3   \* finalize: sorted_by_score[:3]
QuestionLimit  == 10  \* _parse_questions_from_agent: questions[:10]

Procs       == {1, 2}   \* concurrently served requests
SerialProcs == {1}      \* one request at a time
Null        == -1       \* Python None / SQL NULL in an integer column
Titles      == {1, 2}
Scores      == 0..MaxScore
Transcripts == {0, 1}   \* 0: empty or whitespace only, 1: non-empty text

VARIABLES
    profiles,   \* number of candidate_profiles rows; their ids are 1..profiles
    jobs,       \* jobs table: sequence of rows, id = index
    jcs,        \* job_candidates table: sequence of rows, id = index
    invs,       \* interview_sessions table: sequence of rows, id = index
    now,        \* value of datetime.now(timezone.utc), 1..MaxClock
    llm,        \* common/llm.py module state: the key pool and its cycle
    resumes,    \* ResumeMastermindAgent._resumes, in the resume mastermind's
                \* process: the entries ingested so far
    tasks,      \* asyncio tasks created and not yet finished: the pending
                \* _background_generate_question_videos(token, questions)
    pc,         \* pc[p]: where request p stands in its handler
    req         \* req[p]: the handler's locals (inputs and session snapshot),
                \* and at "done" the response it returns

vars == <<profiles, jobs, jcs, invs, now, llm, resumes, tasks, pc, req>>
db   == <<profiles, jobs, jcs, invs, now>>

\* ---------------------------------------------------------------- rows
Job(t, s, m) ==
    [status |-> "draft", schema |-> s, md |-> m, title |-> t]

JobCandidate(j, pid, r) ==
    [job |-> j, profile |-> pid, rank |-> r, decision |-> "none",
     completed |-> Null, score |-> Null, top3 |-> FALSE]

InterviewSession(jcid, tok) ==
    [jc |-> jcid, token |-> tok, questions |-> 0, videos |-> FALSE,
     started |-> Null, ended |-> Null, transcript |-> Null, score |-> Null]

NoReq  == [op |-> "none", key |-> 0, val |-> 0, snap |-> <<>>, top |-> <<>>, aux |-> 0]

Response(o, k, r, v) == [op |-> o, key |-> k, res |-> r, val |-> v]

Min(a, b) == IF a < b THEN a ELSE b

\* The clock never goes back; beyond MaxClock readings are no longer told apart.
Tick == Min(now + 1, MaxClock)

\* session.commit() of a loaded row: only attributes whose value differs from
\* what the session loaded are written; the rest keep the stored value.
Flush(cur, snap, new) ==
    [f \in DOMAIN cur |-> IF new[f] # snap[f] THEN new[f] ELSE cur[f]]

\* scalar_one_or_none() of select(InterviewSession).where(token == tok)
SessionByToken(tok) == {i \in 1..Len(invs) : invs[i].token = tok}

\* select(InterviewSession).where(job_candidate_id == jcid)
SessionOf(jcid) == {i \in 1..Len(invs) : invs[i].jc = jcid}

\* select(JobCandidate).where(JobCandidate.job_id == j), ordered by id
RowsOfJob(j) == {i \in 1..Len(jcs) : jcs[i].job = j}

\* ------------------------------------------------------------ common/llm.py
\* _google_api_keys and _key_cycle of a process configured with n keys, before
\* the first get_llm: keys = n, next = the index the cycle yields next,
\* calls = get_llm calls so far, key = the index the last client was built with.
KeyPool(n) == [keys |-> n, next |-> 0, calls |-> 0, key |-> Null]

\* Mutant: the cycle is not advanced.
get_llm_same_key(l) ==
    IF l.keys = 0 THEN l
    ELSE [l EXCEPT !.key = l.next, !.calls = Min(@ + 1, MaxCalls)]

\* get_llm(): api_key = next(_key_cycle); with no key configured it raises
\* ValueError and the module state stays as it is.
get_llm(l) ==
    IF l.keys = 0 THEN l
    ELSE [l EXCEPT !.key = l.next,
                   !.next = (l.next + 1) % l.keys,
                   !.calls = Min(@ + 1, MaxCalls)]

\* The module state after an invoker call that built a clients.
RECURSIVE Invoked(_, _)
Invoked(l, a) == IF a = 0 THEN l ELSE get_llm(Invoked(l, a - 1))

\* Clients an invoker call builds: one when the first attempt succeeds, two
\* when it fails; failed says that both attempts failed.
Attempts(failed) == IF failed THEN {2} ELSE {1, 2}

Init ==
    /\ profiles = 0
    /\ jobs = <<>>
    /\ jcs = <<>>
    /\ invs = <<>>
    /\ now = 1
    /\ llm = KeyPool(1)
    /\ resumes = <<>>
    /\ tasks = {}
    /\ pc = [p \in Procs |-> "idle"]
    /\ req = [p \in Procs |-> NoReq]

\* The handler of request p returns the response r.
Return(p, r) ==
    /\ pc' = [pc EXCEPT ![p] = "done"]
    /\ req' = [req EXCEPT ![p] = r]

\* The response of request p has been sent: the slot serves the next request.
reply(p) ==
    /\ pc[p] = "done"
    /\ pc' = [pc EXCEPT ![p] = "idle"]
    /\ req' = [req EXCEPT ![p] = NoReq]
    /\ UNCHANGED <<db, llm, resumes, tasks>>

\* The handler of request p suspends at an await and resumes at step s.
Goto(p, s, r) ==
    /\ pc' = [pc EXCEPT ![p] = s]
    /\ req' = [req EXCEPT ![p] = r]

\* ------------------------------------------- invoke_with_retry and structured
\* One model attempt: the key index of the client it was made with and
\* whether its invoke returned. A call's attempts are kept in order.
Attempt(k, ok) == [key |-> k, ok |-> ok]

\* try: return get_llm().invoke(messages)
\* With no key configured get_llm raises inside the try.
invoke_with_retry_try(p) ==
    /\ pc[p] = "idle"
    /\ UNCHANGED <<db, resumes, tasks>>
    /\ llm' = get_llm(llm)
    /\ IF llm.keys = 0
       THEN Goto(p, "invoke_retry", [NoReq EXCEPT !.op = "invoke"])
       ELSE \E ok \in BOOLEAN :
              IF ok
              THEN Return(p, Response("invoke", 0, "ok", <<Attempt(llm.next, TRUE)>>))
              ELSE Goto(p, "invoke_retry",
                        [NoReq EXCEPT !.op = "invoke",
                                      !.top = <<Attempt(llm.next, FALSE)>>])

\* Mutant: the except clause re-raises.
invoke_with_retry_reraise(p) ==
    /\ pc[p] = "invoke_retry"
    /\ UNCHANGED <<db, llm, resumes, tasks>>
    /\ Return(p, Response("invoke", 0, "raise", req[p].top))

\* except Exception: return get_llm().invoke(messages)
invoke_with_retry_except(p) ==
    /\ pc[p] = "invoke_retry"
    /\ UNCHANGED <<db, resumes, tasks>>
    /\ llm' = get_llm(llm)
    /\ IF llm.keys = 0
       THEN Return(p, Response("invoke", 0, "raise", req[p].top))
       ELSE \E ok \in BOOLEAN :
              Return(p, Response("invoke", 0, IF ok THEN "ok" ELSE "raise",
                                 Append(req[p].top, Attempt(llm.next, ok))))

\* llm = get_llm(); try: return structured_llm.invoke(messages)
\* With no key configured get_llm raises before the try.
invoke_structured_with_retry_try(p) ==
    /\ pc[p] = "idle"
    /\ UNCHANGED <<db, resumes, tasks>>
    /\ llm' = get_llm(llm)
    /\ IF llm.keys = 0
       THEN Return(p, Response("invoke_structured", 0, "raise", <<>>))
       ELSE \E ok \in BOOLEAN :
              IF ok
              THEN Return(p, Response("invoke_structured", 0, "ok",
                                      <<Attempt(llm.next, TRUE)>>))
              ELSE Goto(p, "structured_retry",
                        [NoReq EXCEPT !.op = "invoke_structured",
                                      !.top = <<Attempt(llm.next, FALSE)>>])

\* except Exception: llm = get_llm(); return structured_llm.invoke(messages)
invoke_structured_with_retry_except(p) ==
    /\ pc[p] = "structured_retry"
    /\ UNCHANGED <<db, resumes, tasks>>
    /\ llm' = get_llm(llm)
    /\ \E ok \in BOOLEAN :
          Return(p, Response("invoke_structured", 0, IF ok THEN "ok" ELSE "raise",
                             Append(req[p].top, Attempt(llm.next, ok))))

\* Deliveries of the notifications of one call that the handler ran to their
\* end before it returned: none was made ("none": no candidate with an email
\* address), all were delivered, or one failed (_send logs it and returns
\* False).
Deliveries == {"none", "delivered", "failed"}

\* ------------------------------------------------- candidate_upload_resume
\* A first resume upload whose extraction filled the profile adds the
\* candidate's CandidateProfile row.
candidate_upload_resume(p) ==
    /\ pc[p] = "idle"
    /\ profiles < MaxProfiles
    /\ profiles' = profiles + 1
    /\ UNCHANGED <<jobs, jcs, invs, now, llm, resumes, tasks>>
    /\ Return(p, Response("upload_resume", profiles + 1, "ok", 0))

\* ----------------------------------------------------- employer_create_job
employer_create_job(p) ==
    /\ pc[p] = "idle"
    /\ Len(jobs) < MaxJobs
    /\ \E t \in Titles, hasJd \in BOOLEAN, m \in {0, 1} :
          jobs' = Append(jobs, IF hasJd THEN Job(t, 1, 2) ELSE Job(t, 0, m))
    /\ UNCHANGED <<profiles, jcs, invs, now, llm, resumes, tasks>>
    /\ Return(p, Response("create", Len(jobs) + 1, "ok", 0))

\* ----------------------------------------------------- employer_update_job
\* body: title (Null: absent), job_description present or not,
\* description_md (Null: absent, 0: blank, 1: text)
JobUpdate == [title : Titles \cup {Null}, jd : BOOLEAN, md : {Null, 0, 1}]

UpdatedJob(row, body) ==
    [row EXCEPT
        !.title  = IF body.title # Null THEN body.title ELSE @,
        !.schema = IF body.jd THEN 1 ELSE @,
        !.md     = IF body.jd THEN 2 ELSE IF body.md # Null THEN body.md ELSE @]

\* Mutant: the status is not looked at.
EditableAlways(row) == TRUE

\* if row.status != "draft": raise HTTPException(400)
Editable(row) == row.status = "draft"

employer_update_job_select(p) ==
    /\ pc[p] = "idle"
    /\ \E j \in 1..MaxJobs, body \in JobUpdate :
          IF j > Len(jobs)
          THEN Return(p, Response("update", j, "not_found", 0))
          ELSE IF ~Editable(jobs[j])
          THEN Return(p, Response("update", j, "not_draft", 0))
          ELSE Goto(p, "update_commit",
                    [NoReq EXCEPT !.op = "update", !.key = j, !.val = body,
                                  !.snap = jobs[j]])
    /\ UNCHANGED <<db, llm, resumes, tasks>>

employer_update_job_commit(p) ==
    /\ pc[p] = "update_commit"
    /\ LET j == req[p].key
       IN  jobs' = [jobs EXCEPT ![j] =
                       Flush(@, req[p].snap, UpdatedJob(req[p].snap, req[p].val))]
    /\ UNCHANGED <<profiles, jcs, invs, now, llm, resumes, tasks>>
    /\ Return(p, Response("update", req[p].key, "ok", 0))

\* ---------------------------------------------------- employer_publish_job
\* Outcomes of the structured-description extraction: the call returns None
\* when both model attempts fail ("none"), a root whose job_description is
\* empty ("empty"), or a full root ("ok").
SchemaResults == {"none", "empty", "ok"}

\* if not job.description_schema and (job.description_md or "").strip()
NeedsSchema(job) == job.schema = 0 /\ job.md # 0

\* Outcomes of the ranking model call: both attempts failed, or a ranked list
\* of profile ids; the id n + 1 stands for an id outside the n input ids.
RankingOutput(n) ==
    {[fail |-> TRUE, ranked |-> <<>>]} \cup
    {[fail |-> FALSE, ranked |-> s] :
        s \in UNION {[1..k -> 1..(n + 1)] : k \in 0..MaxRanked}}

Take(s, k) == SubSeq(s, 1, Min(Len(s), k))

\* Mutant: no fallback ranking.
FallbackNone(n) == <<>>

\* except-branch of resume_best_match: the first `limit` candidates in input
\* order, rank = position + 1
FallbackRanking(n) == [i \in 1..Min(n, ShortlistLimit) |-> i]

\* The profile ids of top.get("top_5") or top.get("top_10"), best first.
resume_best_match(n, out) ==
    IF n = 0 THEN <<>>
    ELSE IF out.fail THEN FallbackRanking(n)
    ELSE Take(out.ranked, ShortlistLimit)

\* The k-th smallest element of a set of integers.
Nth(S, k) == CHOOSE i \in S : Cardinality({x \in S : x <= i}) = k

\* for i, entry in enumerate(top_5): entries whose profile_id resolves to a
\* stored profile get a JobCandidate and its session. The rank kept is the
\* entry's position, which is what the fallback ranking carries; the rank
\* numbers a model ranking carries of its own are not told apart.
Resolved(top, n) == {i \in 1..Len(top) : top[i] \in 1..n}

ShortlistRows(j, top, n) ==
    [k \in 1..Cardinality(Resolved(top, n)) |->
        JobCandidate(j, top[Nth(Resolved(top, n), k)], Nth(Resolved(top, n), k))]

\* secrets.token_urlsafe(32) for the k-th session created by this publish,
\* when it is a token never handed out before: tokens are opaque, the unused
\* ones are named by the next integers.
NewToken(k) == Len(invs) + k

\* interview_link_token of the stored sessions
TokensInUse == {invs[i].token : i \in 1..Len(invs)}

\* The tokens token_urlsafe may hand out for cnt sessions: all new, or all
\* new but one that repeats a stored token or one handed out earlier in the
\* same call.
TokenDraws(cnt) ==
    {[k \in 1..cnt |-> NewToken(k)]} \cup
    UNION {{[k \in 1..cnt |-> IF k = c THEN t ELSE NewToken(k)] :
               t \in TokensInUse \cup {NewToken(i) : i \in 1..(c - 1)}} :
           c \in 1..cnt}

\* Mutant: the column has no unique index.
NoUniqueIndex(toks) == {}

\* unique=True on interview_link_token: the positions whose INSERT the
\* database refuses (IntegrityError at the flush or the commit).
UniqueViolations(toks) ==
    {k \in 1..Len(toks) :
        toks[k] \in TokensInUse \/ \E i \in 1..(k - 1) : toks[i] = toks[k]}

\* Mutant: rows flushed before the error stay in the tables.
LeftBehind(pending) == pending

\* get_session closes the session without commit when the handler raises:
\* of the rows the session had added, none reaches the tables.
RolledBack(pending) == <<>>

ShortlistSessions(toks) ==
    [k \in 1..Len(toks) |-> InterviewSession(Len(jcs) + k, toks[k])]

\* The job row the publish session holds when it commits.
PublishedJob(snap, gen) ==
    IF NeedsSchema(snap) /\ gen = "ok"
    THEN [snap EXCEPT !.schema = 2, !.md = 2, !.status = "published"]
    ELSE [snap EXCEPT !.status = "published"]

\* Mutant: the job is handed to the ranking whatever it holds.
job_schema_unchecked(job) == "schema"

\* _job_schema_for_best_match(job): the schema as a JSON string, or the 400
\* raised when the job has no structured description.
job_schema_for_best_match(job) == IF job.schema = 0 THEN "raise" ELSE "schema"

\* What a publish call did, kept with its response: the outcome of the
\* extraction ("skipped" when it was not called), whether the ranking model
\* failed, the ranking resume_best_match returned, the rows created, and the
\* delivery of the job-opportunity emails it ran.
PublishOutcome(gen, fail, top, created) ==
    [gen |-> gen, fail |-> fail, top |-> top, created |-> created,
     notified |-> "none"]

NoPublish == PublishOutcome("skipped", FALSE, <<>>, 0)

employer_publish_job_select(p) ==
    /\ pc[p] = "idle"
    /\ \E j \in 1..MaxJobs :
          IF j > Len(jobs)
          THEN Return(p, Response("publish", j, "not_found", NoPublish))
          ELSE Goto(p, "publish_commit",
                    [NoReq EXCEPT !.op = "publish", !.key = j, !.snap = jobs[j]])
    /\ UNCHANGED <<db, llm, resumes, tasks>>

\* The handler from the extraction to its response; cap bounds the rows of
\* the job_candidates table.
employer_publish_job_rows(p, cap) ==
    /\ pc[p] = "publish_commit"
    /\ \E gen \in SchemaResults, out \in RankingOutput(profiles) :
        LET j    == req[p].key
            snap == req[p].snap
            new  == PublishedJob(snap, gen)
            did  == IF NeedsSchema(snap) THEN gen ELSE "skipped"
            best == resume_best_match(profiles, out)
            fail == profiles > 0 /\ out.fail
            top  == Take(best, ShortlistLimit)
            rows == ShortlistRows(j, top, profiles)
            \* clients built by the extraction and by the ranking
            extr == IF NeedsSchema(snap) THEN Attempts(gen = "none") ELSE {0}
            rank == IF profiles > 0 THEN Attempts(out.fail) ELSE {0}
        IN  /\ llm.keys = 0 => (gen = "none" /\ out.fail)
            /\ IF NeedsSchema(snap) /\ gen = "none"
               THEN \* "error" in None raises: the request ends in a 500
                    /\ UNCHANGED <<db, resumes, tasks>>
                    /\ \E a \in extr : llm' = Invoked(llm, a)
                    /\ Return(p, Response("publish", j, "error",
                                          PublishOutcome(did, FALSE, <<>>, 0)))
               ELSE IF job_schema_for_best_match(new) = "raise"
               THEN /\ UNCHANGED <<db, resumes, tasks>>
                    /\ \E a \in extr : llm' = Invoked(llm, a)
                    /\ Return(p, Response("publish", j, "no_schema",
                                          PublishOutcome(did, FALSE, <<>>, 0)))
               ELSE /\ Len(jcs) + Len(rows) <= cap
                    /\ \E a \in extr, b \in rank : llm' = Invoked(llm, a + b)
                    /\ \E toks \in TokenDraws(Len(rows)) :
                         LET bad == UniqueViolations(toks)
                             k   == Nth(bad, 1)
                         IN  IF bad # {}
                             THEN \* IntegrityError: the request ends in a 500
                                  /\ jcs' = jcs \o RolledBack(Take(rows, k))
                                  /\ invs' = invs \o
                                        RolledBack(Take(ShortlistSessions(toks), k - 1))
                                  /\ UNCHANGED <<profiles, jobs, now, resumes, tasks>>
                                  /\ Return(p, Response("publish", j, "db_error",
                                                PublishOutcome(did, fail, best, 0)))
                             ELSE /\ jobs' = [jobs EXCEPT ![j] = Flush(@, snap, new)]
                                  /\ jcs' = jcs \o rows
                                  /\ invs' = invs \o ShortlistSessions(toks)
                                  /\ UNCHANGED <<profiles, now, resumes, tasks>>
                                  /\ Goto(p, "publish_notify",
                                          [req[p] EXCEPT !.val =
                                              PublishOutcome(did, fail, best, Len(rows))])

employer_publish_job_commit(p) == employer_publish_job_rows(p, MaxJC)

\* The same handler where up to MaxShortlist rows are followed.
employer_publish_job_commit_pool(p) == employer_publish_job_rows(p, MaxShortlist)

\* After the commit: a second session selects the job, its rows and their
\* profiles, and interview_send_potential_match sends the job-opportunity
\* email to every candidate with an address, inside the handler; a failed
\* send is logged by _send.
employer_publish_job_notify(p) ==
    /\ pc[p] = "publish_notify"
    /\ \E sent \in Deliveries :
          /\ RowsOfJob(req[p].key) = {} => sent = "none"
          /\ Return(p, Response("publish", req[p].key, "ok",
                                [req[p].val EXCEPT !.notified = sent]))
    /\ UNCHANGED <<db, llm, resumes, tasks>>

\* ---------------------------------------------- employer_reinvite_candidates
employer_reinvite_candidates(p) ==
    /\ pc[p] = "idle"
    /\ \E j \in 1..MaxJobs :
          IF j > Len(jobs)
          THEN Return(p, Response("reinvite", j, "not_found", 0))
          ELSE IF jobs[j].status # "published"
          THEN Return(p, Response("reinvite", j, "not_published", 0))
          ELSE Return(p, Response("reinvite", j, "ok", Cardinality(RowsOfJob(j))))
    /\ UNCHANGED <<db, llm, resumes, tasks>>

\* ---------------------------------------------------- employer_finalize_job
\* c["score"] or 0
ScoreKey(s) == IF s = Null THEN 0 ELSE s

\* Mutant: the transcript is not looked at.
QualifiesWithoutTranscript(i) == jcs[i].completed # Null

\* Mutant: rows already selected by an earlier finalize are passed over.
QualifiesUnlessSelected(i) ==
    /\ jcs[i].completed # Null
    /\ \E s \in SessionOf(i) : invs[s].transcript # Null
    /\ ~jcs[i].top3

\* jc.interview_completed_at and (inv and inv.transcript)
Qualifies(i) ==
    /\ jcs[i].completed # Null
    /\ \E s \in SessionOf(i) : invs[s].transcript # Null

\* scored / candidates_payload: the qualifying rows of the job in id order.
Scored(j) == {i \in RowsOfJob(j) : Qualifies(i)}

CandidatesPayload(j) ==
    [k \in 1..Cardinality(Scored(j)) |->
        [id      |-> Nth(Scored(j), k),
         profile |-> jcs[Nth(Scored(j), k)].profile,
         score   |-> jcs[Nth(Scored(j), k)].score]]

\* sorted(candidates_payload, key=score or 0, reverse=True): a stable sort,
\* rows of equal key keep their payload order.
SortedByScore(payload) ==
    LET pos(i) == 1 + Cardinality({k \in 1..Len(payload) :
                        \/ ScoreKey(payload[k].score) > ScoreKey(payload[i].score)
                        \/ /\ ScoreKey(payload[k].score) = ScoreKey(payload[i].score)
                           /\ k < i})
    IN  [q \in 1..Len(payload) |-> payload[CHOOSE i \in 1..Len(payload) : pos(i) = q]]

\* top_3_ids = [c["profile_id"] for c in sorted_by_score[:3]]
Top3Ids(payload) ==
    {Take(SortedByScore(payload), TopN)[k].profile :
        k \in 1..Min(Len(payload), TopN)}

\* Responses sent before any top 3 was computed.
NoTop == [raised |-> FALSE, top |-> {}]

employer_finalize_job_select(p) ==
    /\ pc[p] = "idle"
    /\ \E j \in 1..MaxJobs :
          IF j > Len(jobs)
          THEN Return(p, Response("finalize", j, "not_found", NoTop))
          ELSE IF CandidatesPayload(j) = <<>>
          THEN Return(p, Response("finalize", j, "no_completed", NoTop))
          ELSE Goto(p, "finalize_rows",
                    [NoReq EXCEPT !.op = "finalize", !.key = j,
                                  !.top = Top3Ids(CandidatesPayload(j))])
    /\ UNCHANGED <<db, llm, resumes, tasks>>

\* second session: select(JobCandidate).where(job_id == job_id)
employer_finalize_job_rows(p) ==
    /\ pc[p] = "finalize_rows"
    /\ Goto(p, "finalize_flags",
            [req[p] EXCEPT !.snap = [i \in RowsOfJob(req[p].key) |-> jcs[i].top3]])
    /\ UNCHANGED <<db, llm, resumes, tasks>>

\* jc.selected_top_3 = jc.candidate_profile_id in top_3_ids; commit
employer_finalize_job_flags(p) ==
    /\ pc[p] = "finalize_flags"
    /\ LET snap == req[p].snap
           flag(i) == jcs[i].profile \in req[p].top
       IN  jcs' = [i \in 1..Len(jcs) |->
                      IF i \in DOMAIN snap /\ flag(i) # snap[i]
                      THEN [jcs[i] EXCEPT !.top3 = flag(i)]
                      ELSE jcs[i]]
    /\ UNCHANGED <<profiles, jobs, invs, now, llm, resumes, tasks>>
    /\ Goto(p, "finalize_delegate", [req[p] EXCEPT !.snap = <<>>])

\* Mutant: the error of the delegation ends the request.
DelegationPropagates == "raise"

\* After job_description_store_interview_results has raised: the except
\* clause logs the error and the handler goes on to close the job.
\* ("raise" would end the request with the error.)
DelegationRaised == "finalize_job"

\* job_description_store_interview_results(...) returns or raises
employer_finalize_job_delegate(p) ==
    /\ pc[p] = "finalize_delegate"
    /\ \E raised \in BOOLEAN :
          IF raised /\ DelegationRaised = "raise"
          THEN Return(p, Response("finalize", req[p].key, "error",
                                  [raised |-> TRUE, top |-> req[p].top]))
          ELSE Goto(p, "finalize_job", [req[p] EXCEPT !.aux = IF raised THEN 1 ELSE 0])
    /\ UNCHANGED <<db, llm, resumes, tasks>>

\* third session: select the job again
employer_finalize_job_job(p) ==
    /\ pc[p] = "finalize_job"
    /\ Goto(p, "finalize_close", [req[p] EXCEPT !.snap = jobs[req[p].key]])
    /\ UNCHANGED <<db, llm, resumes, tasks>>

\* job.status = "closed"; commit
employer_finalize_job_close(p) ==
    /\ pc[p] = "finalize_close"
    /\ LET j == req[p].key
           snap == req[p].snap
       IN  jobs' = [jobs EXCEPT ![j] = Flush(@, snap, [snap EXCEPT !.status = "closed"])]
    /\ UNCHANGED <<profiles, jcs, invs, now, llm, resumes, tasks>>
    /\ Return(p, Response("finalize", req[p].key, "ok",
                           [raised |-> req[p].aux = 1, top |-> req[p].top]))

\* ------------------------------------------------------- interview_complete
\* Outcome of interview_score: {} when both attempts fail (Null), else a score.
ScoreResults == Scores \cup {Null}

\* (body.transcript or "").strip() or None
StoredTranscript(t) == IF t = 0 THEN Null ELSE t

\* Mutant: a completed interview is not turned away.
CompleteRejectedNoJc(i) == invs[i].jc \notin 1..Len(jcs)

\* if not jc or jc.interview_completed_at: 400
CompleteRejected(i) ==
    invs[i].jc \notin 1..Len(jcs) \/ jcs[invs[i].jc].completed # Null

interview_complete_select(p) ==
    /\ pc[p] = "idle"
    /\ \E tok \in 1..MaxJC, t \in Transcripts :
          IF SessionByToken(tok) = {}
          THEN Return(p, Response("complete", tok, "not_found", 0))
          ELSE LET i == CHOOSE i \in SessionByToken(tok) : TRUE
               IN  IF CompleteRejected(i)
                   THEN Return(p, Response("complete", tok, "already_completed", 0))
                   ELSE Goto(p, "complete_commit",
                             [NoReq EXCEPT !.op = "complete", !.key = tok, !.val = t,
                                           !.snap = <<invs[i], jcs[invs[i].jc]>>,
                                           !.aux = i])
    /\ UNCHANGED <<db, llm, resumes, tasks>>

\* Mutant: a failed scoring stores 0.
ScoreOrZero(prev, sc) == IF sc # Null THEN sc ELSE 0

\* score = score_result.get("score"); if score is not None: store it
StoredScore(prev, sc) == IF sc # Null THEN sc ELSE prev

\* Mutant: the score stays on the session.
NotPropagated(prev, sc) == prev

\* jc.score = float(score), under the same "if score is not None"
PropagatedScore(prev, sc) == StoredScore(prev, sc)

\* What a complete call reports: the score of the refreshed session, and
\* whether the scoring failed on both attempts.
CompleteOutcome(score, failed) == [score |-> score, failed |-> failed]

interview_complete_commit(p) ==
    /\ pc[p] = "complete_commit"
    /\ \E sc \in ScoreResults :
        LET i     == req[p].aux
            sinv  == req[p].snap[1]
            sjc   == req[p].snap[2]
            ninv  == [sinv EXCEPT !.transcript = StoredTranscript(req[p].val),
                                  !.ended = now,
                                  !.score = StoredScore(@, sc)]
            njc   == [sjc EXCEPT !.score = PropagatedScore(@, sc),
                                 !.completed = now]
            winv  == Flush(invs[i], sinv, ninv)
        IN  /\ invs' = [invs EXCEPT ![i] = winv]
            /\ jcs' = [jcs EXCEPT ![sinv.jc] = Flush(@, sjc, njc)]
            /\ now' = Tick
            /\ llm.keys = 0 => sc = Null
            /\ \E a \in Attempts(sc = Null) : llm' = Invoked(llm, a)
            /\ UNCHANGED <<profiles, jobs, resumes, tasks>>
            \* session.refresh(inv): the response carries the stored score
            /\ Return(p, Response("complete", req[p].key, "ok",
                                  CompleteOutcome(winv.score, sc = Null)))

\* ------------------------------------------- candidate_respond_to_interview
\* "interested" if body.interested else "rejected"
Decision(interested) == IF interested THEN "interested" ELSE "rejected"

\* Parsed result of interview_prepare_questions: 0 when the capability
\* fails or yields nothing, else one of the non-empty question lists.
QuestionResults == 0..MaxQ

\* What comes back from the interview mastermind for one request, as
\* _send_to_agent sees it: the call raises ("raise"), or a text part that is
\* blank ("blank"), text that is not JSON ("text": the agent's numbered list or
\* its error message, sent as they are), a JSON object with a "result"
\* ("object_result"), with an "error" ("object_error") or with neither
\* ("object_other"), or JSON that is not an object ("not_object").
\* list names the non-empty question list the text of a "text" or of the
\* "result" parses to (0: it parses to nothing).
ReplyKinds ==
    {"raise", "blank", "text", "object_result", "object_error", "object_other",
     "not_object"}

AgentReply(kind, list) == [kind |-> kind, list |-> list]

AgentReplies ==
    {AgentReply(k, 0) : k \in ReplyKinds \ {"text", "object_result"}} \cup
    {AgentReply("text", q) : q \in QuestionResults} \cup
    {AgentReply("object_result", q) : q \in QuestionResults}

\* The handler made no request to the interview mastermind.
NoCall == AgentReply("none", 0)

\* AgentClient.interview_prepare_questions: json.loads of the text (a
\* JSONDecodeError gives {}), "" when the call raised or the object has an
\* "error", else data.get("result", ""). On JSON that is not an object the
\* membership test or the .get raises, outside the try. text: 0 is "", q > 0
\* the text that parses to list q.
interview_prepare_questions(ans) ==
    CASE ans.kind = "not_object" -> [raises |-> TRUE, text |-> 0]
      [] ans.kind = "object_result" -> [raises |-> FALSE, text |-> ans.list]
      [] OTHER -> [raises |-> FALSE, text |-> 0]

\* _parse_questions_from_agent on a text named by the list it parses to
\* (the function itself, line by line, is parse_questions_from_agent below).
ParsedQuestions(text) == text

\* Mutant: the guard is missing.
NeverResponded(row) == FALSE

\* if jc.candidate_decision is not None: 400
AlreadyResponded(row) == row.decision # "none"

\* What a respond call has done when it returns: the candidate and the
\* answer it was given, the reply of the interview mastermind it used, the
\* delivery of the interview-link email it ran, and whether it created the
\* task that generates the question videos.
RespondOutcome(u, interested) ==
    [user |-> u, interested |-> interested, reply |-> NoCall,
     notified |-> "none", task |-> FALSE]

\* A pending _background_generate_question_videos(token, questions).
VideoTask(tok, q) == [token |-> tok, questions |-> q]

\* u: the profile of the authenticated candidate; id: job_candidate_id
candidate_respond_to_interview_select(p) ==
    /\ pc[p] = "idle"
    /\ \E u \in 1..MaxProfiles, id \in 1..MaxJC, interested \in BOOLEAN :
        LET body == RespondOutcome(u, interested)
        IN  IF u > profiles
            THEN Return(p, Response("respond", id, "no_profile", body))
            ELSE IF id > Len(jcs) \/ jcs[id].profile # u
            THEN Return(p, Response("respond", id, "not_found", body))
            ELSE IF AlreadyResponded(jcs[id])
            THEN Return(p, Response("respond", id, "already_responded", body))
            ELSE Goto(p, "respond_commit",
                      [NoReq EXCEPT !.op = "respond", !.key = id,
                                    !.val = body, !.snap = jcs[id]])
    /\ UNCHANGED <<db, llm, resumes, tasks>>

\* Mutant: the interview is prepared whatever the answer was.
PreparesAlways(body) == TRUE

\* if body.interested: the rest of the handler runs for that answer only.
PreparesInterview(body) == body.interested

\* jc.candidate_decision = ...; commit
candidate_respond_to_interview_commit(p) ==
    /\ pc[p] = "respond_commit"
    /\ LET id   == req[p].key
           snap == req[p].snap
       IN  jcs' = [jcs EXCEPT ![id] =
                      Flush(@, snap,
                            [snap EXCEPT !.decision = Decision(req[p].val.interested)])]
    /\ UNCHANGED <<profiles, jobs, invs, now, llm, resumes, tasks>>
    /\ IF PreparesInterview(req[p].val)
       THEN Goto(p, "respond_session", [req[p] EXCEPT !.snap = <<>>])
       ELSE Return(p, Response("respond", req[p].key, "ok", req[p].val))

\* if body.interested: select the job, the session and the profile
candidate_respond_to_interview_session(p) ==
    /\ pc[p] = "respond_session"
    /\ IF SessionOf(req[p].key) = {}
       THEN Return(p, Response("respond", req[p].key, "ok", req[p].val))
       ELSE LET i == CHOOSE i \in SessionOf(req[p].key) : TRUE
            IN  Goto(p, "respond_questions",
                     [req[p] EXCEPT !.snap = invs[i], !.aux = i])
    /\ UNCHANGED <<db, llm, resumes, tasks>>

\* questions = _parse_questions_from_agent(...); if questions: store, commit
candidate_respond_to_interview_questions(p) ==
    /\ pc[p] = "respond_questions"
    /\ \E ans \in AgentReplies :
        LET i    == req[p].aux
            snap == req[p].snap
            got  == interview_prepare_questions(ans)
            q    == ParsedQuestions(got.text)
            body == [req[p].val EXCEPT !.reply = ans]
        IN  IF got.raises
            THEN \* the exception leaves the handler: a 500, after the
                 \* decision was committed
                 /\ invs' = invs
                 /\ Return(p, Response("respond", req[p].key, "error", body))
            ELSE /\ invs' = [invs EXCEPT ![i] =
                                IF q # 0 THEN Flush(@, snap, [snap EXCEPT !.questions = q])
                                ELSE @]
                 /\ Goto(p, "respond_notify", [req[p] EXCEPT !.val = body, !.top = q])
    /\ UNCHANGED <<profiles, jobs, jcs, now, llm, resumes, tasks>>

\* if cp.email: await agent_client.interview_send_invites(...): the email is
\* sent inside the handler, a failed send being logged by _send;
\* if questions: asyncio.create_task(_background_generate_question_videos(...))
candidate_respond_to_interview_notify(p) ==
    /\ pc[p] = "respond_notify"
    /\ \E sent \in Deliveries :
        LET q   == req[p].top
            tok == req[p].snap.token
        IN  /\ tasks' = IF q # 0 THEN tasks \cup {VideoTask(tok, q)} ELSE tasks
            /\ Return(p, Response("respond", req[p].key, "ok",
                                  [req[p].val EXCEPT !.notified = sent, !.task = q # 0]))
    /\ UNCHANGED <<db, llm, resumes>>

\* One pending _background_generate_question_videos runs to its end: made
\* says that a video was generated; then the session is selected by its
\* token and its question_videos are stored.
background_generate_question_videos ==
    \E t \in tasks, made \in BOOLEAN :
        /\ tasks' = tasks \ {t}
        /\ invs' = [i \in 1..Len(invs) |->
                      IF made /\ i \in SessionByToken(t.token)
                      THEN [invs[i] EXCEPT !.videos = TRUE] ELSE invs[i]]
        /\ UNCHANGED <<profiles, jobs, jcs, now, llm, resumes, pc, req>>

\* ----------------------------------------------------------- interview_join
\* if jc.interview_completed_at: 400
JoinRejected(i) == jcs[invs[i].jc].completed # Null

\* What a join call returns of the questions, and the reply of the
\* interview mastermind it used (NoCall when it made no request).
JoinOutcome(q, ans) == [questions |-> q, reply |-> ans]

\* Mutant: stored questions are not looked at.
NoStoredQuestions(row) == FALSE

\* if inv.questions and isinstance(inv.questions, list) and len(...) > 0
HasQuestions(row) == row.questions # 0

interview_join_select(p) ==
    /\ pc[p] = "idle"
    /\ \E tok \in 1..MaxJC :
          IF SessionByToken(tok) = {}
          THEN Return(p, Response("join", tok, "not_found", JoinOutcome(0, NoCall)))
          ELSE LET i == CHOOSE i \in SessionByToken(tok) : TRUE
               IN  IF invs[i].jc \notin 1..Len(jcs)
                   THEN Return(p, Response("join", tok, "not_found", JoinOutcome(0, NoCall)))
                   ELSE IF JoinRejected(i)
                   THEN Return(p, Response("join", tok, "already_completed",
                                           JoinOutcome(0, NoCall)))
                   ELSE IF HasQuestions(invs[i])
                   THEN Return(p, Response("join", tok, "ok",
                                           JoinOutcome(invs[i].questions, NoCall)))
                   ELSE Goto(p, "join_questions",
                             [NoReq EXCEPT !.op = "join", !.key = tok,
                                           !.snap = invs[i], !.aux = i])
    /\ UNCHANGED <<db, llm, resumes, tasks>>

interview_join_questions(p) ==
    /\ pc[p] = "join_questions"
    /\ \E ans \in AgentReplies :
        LET i    == req[p].aux
            snap == req[p].snap
            got  == interview_prepare_questions(ans)
            q    == ParsedQuestions(got.text)
        IN  IF got.raises
            THEN /\ invs' = invs
                 /\ Return(p, Response("join", req[p].key, "error", JoinOutcome(0, ans)))
            ELSE /\ invs' = [invs EXCEPT ![i] =
                                IF q # 0 THEN Flush(@, snap, [snap EXCEPT !.questions = q])
                                ELSE @]
                 /\ Return(p, Response("join", req[p].key, "ok", JoinOutcome(q, ans)))
    /\ UNCHANGED <<profiles, jobs, jcs, now, llm, resumes, tasks>>

\* ---------------------------------------------------------- interview_start
\* Mutant: started_at is written on every call.
NeverStarted(row) == FALSE

\* if inv.started_at: pass
AlreadyStarted(row) == row.started # Null

\* The response says "Interview started." either way; val keeps the stored
\* started_at and whether this call wrote it.
interview_start_select(p) ==
    /\ pc[p] = "idle"
    /\ \E tok \in 1..MaxJC :
          IF SessionByToken(tok) = {}
          THEN Return(p, Response("start", tok, "not_found", 0))
          ELSE LET i == CHOOSE i \in SessionByToken(tok) : TRUE
               IN  IF AlreadyStarted(invs[i])
                   THEN Return(p, Response("start", tok, "ok",
                                  [started |-> invs[i].started, wrote |-> FALSE]))
                   ELSE Goto(p, "start_commit",
                             [NoReq EXCEPT !.op = "start", !.key = tok,
                                           !.snap = invs[i], !.aux = i])
    /\ UNCHANGED <<db, llm, resumes, tasks>>

interview_start_commit(p) ==
    /\ pc[p] = "start_commit"
    /\ LET i    == req[p].aux
           snap == req[p].snap
       IN  invs' = [invs EXCEPT ![i] = Flush(@, snap, [snap EXCEPT !.started = now])]
    /\ now' = Tick
    /\ UNCHANGED <<profiles, jobs, jcs, llm, resumes, tasks>>
    /\ Return(p, Response("start", req[p].key, "ok",
                           [started |-> now, wrote |-> TRUE]))

\* ----------------------------------------------------------- interview_chat
\* if not jc or jc.interview_completed_at: 400
ChatRejected(i) ==
    invs[i].jc \notin 1..Len(jcs) \/ jcs[invs[i].jc].completed # Null

\* Mutant: the turn stores the transcript it was sent.
interview_chat_recording(p) ==
    /\ pc[p] = "idle"
    /\ \E tok \in 1..MaxJC, t \in Transcripts :
          /\ SessionByToken(tok) # {}
          /\ invs' = [i \in 1..Len(invs) |->
                        IF i \in SessionByToken(tok)
                        THEN [invs[i] EXCEPT !.transcript = t] ELSE invs[i]]
          /\ Return(p, Response("chat", tok, "ok", <<>>))
    /\ UNCHANGED <<profiles, jobs, jcs, now, llm, resumes, tasks>>

\* transcript and message: 0 blank, 1 non-empty; ok: the model call returns.
\* response = get_llm().invoke([...]); any exception ends the turn in a 500.
interview_chat(p) ==
    /\ pc[p] = "idle"
    /\ \E tok \in 1..MaxJC, t \in {0, 1}, m \in {0, 1}, ok \in BOOLEAN :
          IF SessionByToken(tok) = {}
          THEN /\ Return(p, Response("chat", tok, "not_found", 0))
               /\ UNCHANGED <<llm, resumes, tasks>>
          ELSE LET i == CHOOSE i \in SessionByToken(tok) : TRUE
               IN  IF ChatRejected(i)
                   THEN /\ Return(p, Response("chat", tok, "already_completed", 0))
                        /\ UNCHANGED <<llm, resumes, tasks>>
                   ELSE IF m = 0 /\ t # 0
                   THEN /\ Return(p, Response("chat", tok, "message_required", 0))
                        /\ UNCHANGED <<llm, resumes, tasks>>
                   ELSE IF llm.keys = 0
                   THEN /\ Return(p, Response("chat", tok, "llm_failed", <<>>))
                        /\ UNCHANGED <<llm, resumes, tasks>>
                   ELSE /\ llm' = get_llm(llm)
                        /\ Return(p, Response("chat", tok,
                                              IF ok THEN "ok" ELSE "llm_failed",
                                              <<Attempt(llm.next, ok)>>))
    /\ UNCHANGED <<db, resumes, tasks>>

\* ------------------------------------------------------------ specifications
\* Requests served one at a time: every handler runs to its response before
\* the next request starts.
Next ==
    \E p \in SerialProcs :
        \/ candidate_upload_resume(p)
        \/ employer_create_job(p)
        \/ employer_update_job_select(p)
        \/ employer_update_job_commit(p)
        \/ employer_publish_job_select(p)
        \/ employer_publish_job_commit(p)
        \/ employer_publish_job_notify(p)
        \/ employer_reinvite_candidates(p)
        \/ employer_finalize_job_select(p)
        \/ employer_finalize_job_rows(p)
        \/ employer_finalize_job_flags(p)
        \/ employer_finalize_job_delegate(p)
        \/ employer_finalize_job_job(p)
        \/ employer_finalize_job_close(p)
        \/ interview_complete_select(p)
        \/ interview_complete_commit(p)
        \/ reply(p)

Spec == Init /\ [][Next]_vars

\* The candidate's answer to the invitation, requests served one at a time.
NextRespond ==
    \/ background_generate_question_videos
    \/ \E p \in SerialProcs :
        \/ candidate_upload_resume(p)
        \/ employer_create_job(p)
        \/ employer_publish_job_select(p)
        \/ employer_publish_job_commit(p)
        \/ employer_publish_job_notify(p)
        \/ candidate_respond_to_interview_select(p)
        \/ candidate_respond_to_interview_commit(p)
        \/ candidate_respond_to_interview_session(p)
        \/ candidate_respond_to_interview_questions(p)
        \/ candidate_respond_to_interview_notify(p)
        \/ reply(p)

SpecRespond == Init /\ [][NextRespond]_vars

\* A job has just been published with a shortlist of MaxJC rows over the
\* MaxProfiles stored profiles (the ranking may name a profile twice).
InitShortlist ==
    /\ profiles = MaxProfiles
    /\ jobs = <<[Job(1, 1, 2) EXCEPT !.status = "published"]>>
    /\ \E top \in [1..MaxJC -> 1..MaxProfiles] :
          jcs = [i \in 1..MaxJC |-> JobCandidate(1, top[i], i)]
    /\ invs = [i \in 1..MaxJC |-> InterviewSession(i, i)]
    /\ now = 1
    /\ llm = Invoked(KeyPool(1), 1)
    /\ resumes = <<>>
    /\ tasks = {}
    /\ pc = [p \in Procs |-> "idle"]
    /\ req = [p \in Procs |-> NoReq]

\* The interview by token, requests served one at a time.
NextInterview ==
    \E p \in SerialProcs :
        \/ interview_join_select(p)
        \/ interview_join_questions(p)
        \/ interview_start_select(p)
        \/ interview_start_commit(p)
        \/ interview_chat(p)
        \/ interview_complete_select(p)
        \/ interview_complete_commit(p)
        \/ reply(p)

SpecInterview == InitShortlist /\ [][NextInterview]_vars

\* The invitation and the join page of a shortlisted candidate, requests
\* served one at a time: the two handlers that store a question list.
NextQuestions ==
    \/ background_generate_question_videos
    \/ \E p \in SerialProcs :
        \/ candidate_respond_to_interview_select(p)
        \/ candidate_respond_to_interview_commit(p)
        \/ candidate_respond_to_interview_session(p)
        \/ candidate_respond_to_interview_questions(p)
        \/ candidate_respond_to_interview_notify(p)
        \/ interview_join_select(p)
        \/ interview_join_questions(p)
        \/ reply(p)

SpecQuestions == InitShortlist /\ [][NextQuestions]_vars

\* Two respond requests in flight: the event loop runs one handler up to its
\* next await and may then resume the other.
NextRaceRespond ==
    \/ background_generate_question_videos
    \/ \E p \in Procs :
        \/ candidate_respond_to_interview_select(p)
        \/ candidate_respond_to_interview_commit(p)
        \/ candidate_respond_to_interview_session(p)
        \/ candidate_respond_to_interview_questions(p)
        \/ candidate_respond_to_interview_notify(p)
        \/ reply(p)

SpecRaceRespond == InitShortlist /\ [][NextRaceRespond]_vars

\* Two complete requests in flight.
NextRaceComplete ==
    \E p \in Procs :
        \/ interview_complete_select(p)
        \/ interview_complete_commit(p)
        \/ reply(p)

SpecRaceComplete == InitShortlist /\ [][NextRaceComplete]_vars

\* Finalize on its own: a published job whose MaxRows shortlisted rows are in
\* any mix of not interviewed, completed with an empty transcript, and
\* completed with a transcript and any scoring outcome; a row's profile is
\* its own or, as after a ranking that names a candidate twice, that of row 1.
RowStates ==
    {[completed |-> Null, transcript |-> Null, score |-> Null],
     [completed |-> MaxClock, transcript |-> Null, score |-> Null]} \cup
    {[completed |-> MaxClock, transcript |-> 1, score |-> sc] : sc \in ScoreResults}

InitFinalize ==
    /\ profiles = MaxRows
    /\ jobs = <<[Job(1, 1, 2) EXCEPT !.status = "published"]>>
    /\ \E st \in [1..MaxRows -> RowStates], own \in [1..MaxRows -> BOOLEAN] :
          /\ jcs = [i \in 1..MaxRows |->
                      [JobCandidate(1, IF own[i] THEN i ELSE 1, i) EXCEPT
                          !.completed = st[i].completed, !.score = st[i].score]]
          /\ invs = [i \in 1..MaxRows |->
                      [InterviewSession(i, i) EXCEPT
                          !.ended = st[i].completed,
                          !.transcript = st[i].transcript,
                          !.score = st[i].score]]
    /\ now = MaxClock
    /\ llm = Invoked(KeyPool(1), MaxCalls)
    /\ resumes = <<>>
    /\ tasks = {}
    /\ pc = [p \in Procs |-> "idle"]
    /\ req = [p \in Procs |-> NoReq]

NextFinalize ==
    \E p \in SerialProcs :
        \/ employer_finalize_job_select(p)
        \/ employer_finalize_job_rows(p)
        \/ employer_finalize_job_flags(p)
        \/ employer_finalize_job_delegate(p)
        \/ employer_finalize_job_job(p)
        \/ employer_finalize_job_close(p)
        \/ reply(p)

SpecFinalize == InitFinalize /\ [][NextFinalize]_vars

\* One publish call on its own, over a pool of up to MaxPool stored profiles:
\* a draft job created with a structured description, with markdown only, or
\* blank.
InitPublish ==
    /\ profiles \in 0..MaxPool
    /\ \E hasJd \in BOOLEAN, m \in {0, 1} :
          jobs = <<IF hasJd THEN Job(1, 1, 2) ELSE Job(1, 0, m)>>
    /\ jcs = <<>>
    /\ invs = <<>>
    /\ now = 1
    /\ llm = KeyPool(1)
    /\ resumes = <<>>
    /\ tasks = {}
    /\ pc = [p \in Procs |-> "idle"]
    /\ req = [p \in Procs |-> NoReq]

NextPublish ==
    \E p \in SerialProcs :
        \/ employer_publish_job_select(p)
        \/ employer_publish_job_commit_pool(p)
        \/ employer_publish_job_notify(p)

SpecPublish == InitPublish /\ [][NextPublish]_vars

\* The invoker on its own, in a process configured with 0..MaxKeys keys.
InitInvoker ==
    /\ profiles = 0
    /\ jobs = <<>>
    /\ jcs = <<>>
    /\ invs = <<>>
    /\ now = 1
    /\ \E n \in 0..MaxKeys : llm = KeyPool(n)
    /\ resumes = <<>>
    /\ tasks = {}
    /\ pc = [p \in Procs |-> "idle"]
    /\ req = [p \in Procs |-> NoReq]

NextInvoker ==
    \E p \in SerialProcs :
        \/ invoke_with_retry_try(p)
        \/ invoke_with_retry_except(p)
        \/ invoke_structured_with_retry_try(p)
        \/ invoke_structured_with_retry_except(p)
        \/ reply(p)

SpecInvoker == InitInvoker /\ [][NextInvoker]_vars

\* ------------------------------------------- _parse_questions_from_agent
\* A line of the text: what it starts with once stripped ("blank" when
\* nothing is left), whether it has white space around it, and its content,
\* named by its place in the text.
LineKinds == {"blank", "digit", "dash", "other"}

Line(i, kind, pad) == [body |-> i, kind |-> kind, pad |-> pad]

TextOf(kinds, pads) == [i \in 1..Len(kinds) |-> Line(i, kinds[i], pads[i])]

\* The texts the function is applied to: every text of up to MaxLines lines,
\* and the texts of more than QuestionLimit lines that start with a digit or
\* with something else (None and "" are the text of no line).
Texts ==
    UNION {{TextOf(k, pd) : k \in [1..n -> LineKinds], pd \in [1..n -> BOOLEAN]}
            : n \in 0..MaxLines}
    \cup UNION {{TextOf(k, [i \in 1..n |-> FALSE]) : k \in [1..n -> {"digit", "other"}]}
                 : n \in (QuestionLimit + 1)..MaxLong}

\* line.strip()
strip(line) == [line EXCEPT !.pad = FALSE]

Stripped(lines) == [i \in 1..Len(lines) |-> strip(lines[i])]

\* line.strip() is not empty
NotBlank(line) == line.kind # "blank"

\* Mutant: only a digit marks a question.
StartsWithDigit(line) == line.kind = "digit"

\* line.strip()[0].isdigit() or line.strip().startswith("-")
Marked(line) == line.kind \in {"digit", "dash"}

\* questions[:10]
Truncated(s) == Take(s, QuestionLimit)

parse_questions_from_agent(questions_text) ==
    IF \A i \in 1..Len(questions_text) : ~NotBlank(questions_text[i])
    THEN <<>>
    ELSE LET questions == Stripped(SelectSeq(SelectSeq(questions_text, NotBlank), Marked))
         IN  IF questions = <<>>
             THEN Truncated(Truncated(Stripped(SelectSeq(questions_text, NotBlank))))
             ELSE Truncated(questions)

ParseOutcome(text, questions) == [text |-> text, questions |-> questions]

\* One application of the function to a text.
parse_questions(p) ==
    /\ pc[p] = "idle"
    /\ \E text \in Texts :
          Return(p, Response("parse", 0, "ok",
                             ParseOutcome(text, parse_questions_from_agent(text))))
    /\ UNCHANGED <<db, llm, resumes, tasks>>

NextParse ==
    \E p \in SerialProcs :
        \/ parse_questions(p)
        \/ reply(p)

SpecParse == Init /\ [][NextParse]_vars

\* ------------------------------------------------- ResumeMastermindAgent
\* In the specification of the resume mastermind's process, llm is the
\* key pool of that process.
\* A payload of ainvoke: text that is not JSON ("invalid"), JSON that is a
\* list, a number or a string, or a JSON object with its action ("none":
\* absent, "other": none of the two known ones) and its resume_text and
\* job_description ("absent", "empty" or "text").
Payload(json, action, resume_text, job_description) ==
    [json |-> json, action |-> action, resume_text |-> resume_text,
     job_description |-> job_description]

NotObjects == {"list", "number", "string"}

FieldValues == {"absent", "empty", "text"}

Payloads ==
    {Payload(k, "none", "absent", "absent") : k \in {"invalid"} \cup NotObjects} \cup
    {Payload("object", a, r, j) :
        a \in {"none", "ingest_resume", "best_match", "other"},
        r \in FieldValues, j \in FieldValues}

\* The fields of the model returned by the structured extraction.
ResumeExtractOutput ==
    {"personal_information", "education", "work_experience", "skills", "summary",
     "additional_details"}

\* What ainvoke returns: the kind of its "error" or "result", and whether the
\* "resume" and the "profile" it carries are not null.
AgentOutput(kind, resume, profile) == [kind |-> kind, resume |-> resume, profile |-> profile]

\* ingest_resume, given whether invoke_structured_with_retry returned an
\* instance: data = {"resume": result.resume} reads an attribute, and a
\* missing one raises inside the try, so that the except clause stores the
\* raw entry and returns no record and no profile. entry is what is appended
\* to _resumes.
ingest_resume(extracted) ==
    IF extracted /\ "resume" \in ResumeExtractOutput
    THEN [entry |-> "structured", out |-> AgentOutput("ingested", TRUE, TRUE)]
    ELSE [entry |-> "raw", out |-> AgentOutput("stored_raw", FALSE, FALSE)]

\* What a finished ainvoke leaves in its slot: the payload, whether the
\* structured extraction returned an instance, and the output.
AgentCall(payload, extracted, out) ==
    [payload |-> payload, extracted |-> extracted, out |-> out]

AgentError(p, payload, kind) ==
    /\ UNCHANGED <<llm, resumes, tasks>>
    /\ Return(p, Response("resume_ainvoke", 0, "error",
                          AgentCall(payload, FALSE, AgentOutput(kind, FALSE, FALSE))))

\* ResumeMastermindAgent.ainvoke, with ingest_resume and best_match
resume_ainvoke(p) ==
    /\ pc[p] = "idle"
    /\ UNCHANGED <<db, tasks>>
    /\ \E payload \in Payloads :
          IF payload.json = "invalid"
          THEN AgentError(p, payload, "invalid_json")
          ELSE IF payload.json \in NotObjects
          THEN \* data.get on a list, a number or a string: AttributeError
               /\ UNCHANGED <<llm, resumes, tasks>>
               /\ Return(p, Response("resume_ainvoke", 0, "raise",
                                     AgentCall(payload, FALSE, AgentOutput("raise", FALSE, FALSE))))
          ELSE IF payload.action = "ingest_resume"
          THEN IF payload.resume_text # "text"
               THEN AgentError(p, payload, "missing_resume_text")
               ELSE /\ Len(resumes) < MaxResumes
                    /\ \E extracted \in BOOLEAN :
                          /\ llm.keys = 0 => ~extracted
                          /\ \E a \in Attempts(~extracted) :
                                llm' = IF llm.keys = 0 THEN llm ELSE Invoked(llm, a)
                          /\ resumes' = Append(resumes, ingest_resume(extracted).entry)
                          /\ Return(p, Response("resume_ainvoke", 0, "ok",
                                                AgentCall(payload, extracted,
                                                          ingest_resume(extracted).out)))
          ELSE IF payload.action = "best_match"
          THEN IF payload.job_description # "text"
               THEN AgentError(p, payload, "missing_job_description")
               ELSE IF resumes = <<>>
               THEN /\ UNCHANGED <<llm, resumes, tasks>>
                    /\ Return(p, Response("resume_ainvoke", 0, "ok",
                                          AgentCall(payload, FALSE,
                                                    AgentOutput("no_resumes", FALSE, FALSE))))
               ELSE \* get_llm().invoke(messages), not in a try
                    /\ llm' = get_llm(llm)
                    /\ UNCHANGED resumes
                    /\ \E ok \in BOOLEAN :
                          /\ llm.keys = 0 => ~ok
                          /\ Return(p, Response("resume_ainvoke", 0,
                                                IF ok THEN "ok" ELSE "raise",
                                                AgentCall(payload, FALSE,
                                                          AgentOutput(IF ok THEN "ranking" ELSE "raise",
                                                                      FALSE, FALSE))))
          ELSE AgentError(p, payload, "unknown_action")

NextResumeAgent ==
    \E p \in SerialProcs :
        \/ resume_ainvoke(p)
        \/ reply(p)

SpecResumeAgent == InitInvoker /\ [][NextResumeAgent]_vars

\* ------------------------------------------------ what is logged and printed
\* A line written to the log or to standard output: the statement that
\* wrote it and the one value it formats that matters here.
LogLine(msg, arg) == [msg |-> msg, arg |-> arg]

\* get_llm: logger.info("Using Gemini LLM model=%s with key rotation
\* (keys=%d)", model, len(_get_google_api_keys()))
get_llm_log(l) == <<LogLine("using_gemini_llm", l.keys)>>

\* The lines of a invoke_structured_with_retry that made a attempts, the
\* last of them failing or not: one of get_llm for each attempt, and the
\* warning of the retry after a failed first one.
structured_retry_log(l, a) ==
    IF a = 1 THEN get_llm_log(l)
    ELSE get_llm_log(l) \o <<LogLine("structured_invoke_failed_retrying", 0)>> \o get_llm_log(l)

\* The key files of an APIKeyManager: non-empty lists of key values.
KeyFiles == UNION {[1..n -> 1..MaxSecret] : n \in 1..MaxKeys}

\* APIKeyManager.get_key for the i-th time: next(itertools.cycle(keys))
get_key(keys, i) == keys[((i - 1) % Len(keys)) + 1]

\* Outcomes of one model call of the loop of parse_with_llm.
CallOutcomes == {"ok", "timeout", "error"}

\* The schema argument: None, a schema with the property resume or
\* job_description, or another schema.
SchemaArgs == {"none", "resume", "job_description", "other"}

RECURSIVE parse_with_llm_prints(_, _, _)
\* What the loop of parse_with_llm prints from attempt i on, given the
\* outcome of every attempt (outs has retries + 1 entries).
parse_with_llm_prints(keys, outs, i) ==
    IF i > Len(outs)
    THEN <<LogLine("all_retries_exhausted", 0)>>
    ELSE <<LogLine("using_api_key", get_key(keys, i)),
           LogLine("parsing_attempt", i),
           LogLine("text", 0)>> \o
         (CASE outs[i] = "ok" -> <<>>
            [] outs[i] = "error" -> <<LogLine("parsing_failed", 0)>>
            [] outs[i] = "timeout" ->
                  <<LogLine("timed_out", 0)>> \o parse_with_llm_prints(keys, outs, i + 1))

\* All that a call of parse_with_llm writes: with a resume or
\* job_description schema the lines of _parse_with_structured_output (a
\* attempts, failed or not), else those of the loop.
Written(l, schema, keys, outs, a, failed) ==
    IF schema \in {"resume", "job_description"}
    THEN IF l.keys = 0
         THEN <<LogLine("structured_parse_failed", 0)>>
         ELSE structured_retry_log(l, a) \o
              (IF failed THEN <<LogLine("structured_parse_failed", 0)>> ELSE <<>>)
    ELSE parse_with_llm_prints(keys, outs, 1)

ParseCall(schema, keys, outs, a, failed, written) ==
    [schema |-> schema, keys |-> keys, outs |-> outs, attempts |-> a,
     failed |-> failed, written |-> written]

\* parse_with_llm(text, retries, timeout_sec, key_manager, SCHEMA_JSON), the
\* process's key pool being llm. The read of result.resume raises for the
\* resume schema (see ingest_resume), which ends as a failed parse.
parse_with_llm(p) ==
    /\ pc[p] = "idle"
    /\ UNCHANGED <<db, resumes, tasks>>
    /\ \E schema \in SchemaArgs :
          IF schema \in {"resume", "job_description"}
          THEN \E ok \in BOOLEAN :
               \E a \in Attempts(~ok) :
                  LET failed == ~ok \/ schema = "resume"
                      made   == IF llm.keys = 0 THEN 0 ELSE a
                  IN  /\ llm.keys = 0 => ~ok
                      /\ llm' = Invoked(llm, made)
                      /\ Return(p, Response("parse_with_llm", 0, "ok",
                                            ParseCall(schema, <<>>, <<>>, made, failed,
                                                      Written(llm, schema, <<>>, <<>>,
                                                              made, failed))))
          ELSE \E keys \in KeyFiles, retries \in 0..MaxRetries :
               \E outs \in [1..(retries + 1) -> CallOutcomes] :
                  /\ llm' = llm
                  /\ Return(p, Response("parse_with_llm", 0, "ok",
                                        ParseCall(schema, keys, outs, 0, FALSE,
                                                  Written(llm, schema, keys, outs,
                                                          0, FALSE))))

NextCredentials ==
    \E p \in SerialProcs :
        \/ parse_with_llm(p)
        \/ reply(p)

SpecCredentials == InitInvoker /\ [][NextCredentials]_vars

\* ==================================================================== claims
\* Notions of the claims, stated on the tables alone.
StatusOrder(st) == CASE st = "draft" -> 1 [] st = "published" -> 2 [] st = "closed" -> 3

\* a row with interview_completed_at set and a non-empty transcript on its session
HasCompletedInterview(i) ==
    /\ jcs[i].completed # Null
    /\ \E s \in 1..Len(invs) : invs[s].jc = i /\ invs[s].transcript # Null

QualifyingRows(j) ==
    {i \in 1..Len(jcs) : jcs[i].job = j /\ HasCompletedInterview(i)}

SelectedRows(j) == {i \in 1..Len(jcs) : jcs[i].job = j /\ jcs[i].top3}

NullAsZero(s) == IF s = Null THEN 0 ELSE s

Finished(p, o) == pc[p] = "done" /\ req[p].op = o

\* C1: the status of a job never moves back: over every step its position in
\* draft, published, closed stays the same or grows, so the distinct values
\* it takes form a subsequence of draft, published, closed.
C1_StatusMonotonic ==
    [][\A j \in 1..Len(jobs) :
          StatusOrder(jobs'[j].status) >= StatusOrder(jobs[j].status)]_vars

\* C6: a publish call that finds the job published or closed is rejected,
\* leaves the job as it is and creates no JobCandidate or InterviewSession.
C6_PublishOnlyFromDraft ==
    [][\A p \in Procs :
          (pc[p] = "publish_commit" /\ pc'[p] # "publish_commit"
              /\ jobs[req[p].key].status # "draft")
          => /\ pc'[p] = "done" /\ req'[p].res # "ok"
             /\ jobs' = jobs /\ jcs' = jcs /\ invs' = invs]_vars

\* C7: a finalize call on a job without any row that has a completed
\* interview with a non-empty transcript fails at once, and the jobs and
\* job_candidates tables are after the call what they were before it.
C7_FinalizeNeedsCompletedInterview ==
    [][\A p \in Procs :
          (pc[p] = "idle" /\ pc'[p] # "idle" /\ req'[p].op = "finalize"
              /\ req'[p].key <= Len(jobs) /\ QualifyingRows(req'[p].key) = {})
          => /\ pc'[p] = "done"
             /\ req'[p].res = "no_completed"
             /\ jobs' = jobs /\ jcs' = jcs]_vars

\* C7 witness: a finalize was refused on a job one of whose candidates has
\* completed the interview with an empty transcript.
C7_Witness ==
    \E p \in Procs :
        /\ Finished(p, "finalize") /\ req[p].res = "no_completed"
        /\ \E i \in 1..Len(jcs) : jcs[i].job = req[p].key /\ jcs[i].completed # Null

\* C8: when a finalize has returned success, the rows of the job with
\* selected_top_3 set are qualifying rows, there are min(3, number of
\* qualifying rows) of them, and none of them has a lower score (null as 0)
\* than a qualifying row that is not selected.
C8_Top3OfQualifying ==
    \A p \in Procs :
        (Finished(p, "finalize") /\ req[p].res = "ok")
        => LET j == req[p].key
           IN  /\ SelectedRows(j) \subseteq QualifyingRows(j)
               /\ Cardinality(SelectedRows(j)) = Min(TopN, Cardinality(QualifyingRows(j)))
               /\ \A a \in SelectedRows(j), b \in QualifyingRows(j) \ SelectedRows(j) :
                     NullAsZero(jcs[a].score) >= NullAsZero(jcs[b].score)

\* C10: a finalize whose delegation to the reporting collaborator raised
\* returns success, with the job closed and selected_top_3 on the rows of the
\* job being the flags it wrote (profile among the top_3 ids it computed).
C10_FinalizeSurvivesDelegationError ==
    \A p \in Procs :
        (Finished(p, "finalize") /\ req[p].val.raised)
        => /\ req[p].res = "ok"
           /\ jobs[req[p].key].status = "closed"
           /\ \A i \in 1..Len(jcs) :
                 jcs[i].job = req[p].key => (jcs[i].top3 <=> jcs[i].profile \in req[p].val.top)

\* C10 witness: a finalize whose delegation raised has returned, and it had
\* selected at least one row.
C10_Witness ==
    \E p \in Procs :
        /\ Finished(p, "finalize") /\ req[p].val.raised /\ req[p].res = "ok"
        /\ SelectedRows(req[p].key) # {}

\* C9 (under SpecFinalize, where finalize is the only operation): once a
\* finalize has closed the job, no later finalize changes the set of rows
\* with selected_top_3 set.
C9_FinalizeTwiceSameSelection ==
    [][\A j \in 1..Len(jobs) :
          jobs[j].status = "closed" => SelectedRows(j)' = SelectedRows(j)]_vars

\* C9 witness: a second finalize has written its flags on a closed job with
\* more than three qualifying rows.
C9_Witness ==
    \E p \in Procs :
        /\ pc[p] = "finalize_delegate"
        /\ jobs[req[p].key].status = "closed"
        /\ Cardinality(QualifyingRows(req[p].key)) > TopN

\* C2 (requests served one at a time): once a JobCandidate has a decision,
\* no step changes it, and a respond call of its candidate that finds the
\* decision set returns the already-responded conflict, whatever it asks for.
C2_DecisionWriteOnce ==
    [][/\ \A id \in 1..Len(jcs) :
             jcs[id].decision # "none" => jcs'[id].decision = jcs[id].decision
       /\ \A p \in Procs :
             (pc[p] = "idle" /\ pc'[p] # "idle" /\ req'[p].op = "respond"
                 /\ req'[p].key <= Len(jcs)
                 /\ jcs[req'[p].key].decision # "none"
                 /\ jcs[req'[p].key].profile = req'[p].val.user)
             => pc'[p] = "done" /\ req'[p].res = "already_responded"]_vars

\* C2 witness: a second respond, asking for the opposite of the stored
\* decision, got the conflict.
C2_Witness ==
    \E p \in Procs :
        /\ Finished(p, "respond") /\ req[p].res = "already_responded"
        /\ jcs[req[p].key].decision = "interested"
        /\ ~req[p].val.interested

\* C3: two respond requests for the same JobCandidate never both return
\* success.
C3_OneRespondSucceeds ==
    \A p, q \in Procs :
        (p # q /\ Finished(p, "respond") /\ Finished(q, "respond")
            /\ req[p].key = req[q].key)
        => ~(req[p].res = "ok" /\ req[q].res = "ok")

\* an interview whose completion has been recorded
InterviewCompleted(i) == jcs[invs[i].jc].completed # Null

\* C4 (requests served one at a time): once the interview of a session is
\* completed, no step changes the session's transcript, ended_at or score nor
\* the JobCandidate's interview_completed_at or score, and every complete,
\* chat or join call with the session's token is rejected as already
\* completed.
C4_CompletedIsTerminal ==
    [][\A i \in 1..Len(invs) :
          InterviewCompleted(i)
          => /\ invs'[i].transcript = invs[i].transcript
             /\ invs'[i].ended = invs[i].ended
             /\ invs'[i].score = invs[i].score
             /\ jcs'[invs[i].jc].completed = jcs[invs[i].jc].completed
             /\ jcs'[invs[i].jc].score = jcs[invs[i].jc].score
             /\ \A p \in Procs :
                   (pc[p] = "idle" /\ pc'[p] # "idle"
                       /\ req'[p].op \in {"complete", "chat", "join"}
                       /\ req'[p].key = invs[i].token)
                   => pc'[p] = "done" /\ req'[p].res = "already_completed"]_vars

\* C4 witness: a complete call on a completed interview was rejected.
C4_Witness ==
    \E p \in Procs :
        /\ Finished(p, "complete") /\ req[p].res = "already_completed"
        /\ \E i \in 1..Len(invs) : invs[i].token = req[p].key /\ InterviewCompleted(i)

\* C5: two complete requests for the same interview token never both return
\* success.
C5_OneCompleteSucceeds ==
    \A p, q \in Procs :
        (p # q /\ Finished(p, "complete") /\ Finished(q, "complete")
            /\ req[p].key = req[q].key)
        => ~(req[p].res = "ok" /\ req[q].res = "ok")

\* C11: a publish of a job that has only a markdown description, whose
\* extraction of the structured description failed on both model attempts,
\* returns success and leaves the job published.
C11_PublishSurvivesExtractionFailure ==
    \A p \in Procs :
        (Finished(p, "publish") /\ req[p].val.gen = "none")
        => /\ req[p].res = "ok"
           /\ jobs[req[p].key].status = "published"
           /\ jobs[req[p].key].schema = 0

\* C12: a publish call on a job with neither a structured description nor a
\* non-empty markdown description does not return success; the job is in
\* status draft before and after it and the call adds no JobCandidate and no
\* InterviewSession.
C12_PublishNeedsDescription ==
    [][\A p \in Procs :
          (pc[p] = "publish_commit" /\ pc'[p] # "publish_commit"
              /\ jobs[req[p].key].schema = 0 /\ jobs[req[p].key].md = 0)
          => /\ pc'[p] = "done" /\ req'[p].res \notin {"ok"}
             /\ jobs[req[p].key].status = "draft"
             /\ jobs' = jobs /\ jcs' = jcs /\ invs' = invs]_vars

\* C12 witness: a publish was refused on a job with a blank description.
C12_Witness ==
    \E p \in Procs :
        /\ Finished(p, "publish") /\ req[p].res = "no_schema"
        /\ jobs[req[p].key].schema = 0 /\ jobs[req[p].key].md = 0

\* the rows the finished publish call of p added, in the order it added them
CreatedRows(p) == SubSeq(jcs, Len(jcs) - req[p].val.created + 1, Len(jcs))

C14_RankingNamesInputIds ==
    \A p \in Procs :
        Finished(p, "publish")
        => \A k \in 1..Len(req[p].val.top) : req[p].val.top[k] \in 1..profiles

\* C15: in every state of the tables, each JobCandidate has exactly one
\* InterviewSession and each InterviewSession points at a stored JobCandidate
\* (so sessions and JobCandidates are paired one to one), also after a
\* publish that failed part-way through its shortlist.
C15_OneSessionPerJobCandidate ==
    /\ \A i \in 1..Len(jcs) : Cardinality(SessionOf(i)) = 1
    /\ \A s \in 1..Len(invs) : invs[s].jc \in 1..Len(jcs)

\* C15 witness: a publish failed on the insert of a session after rows of
\* its shortlist had been flushed, on a job that already has a shortlist.
C15_Witness ==
    \E p \in Procs :
        /\ Finished(p, "publish") /\ req[p].res = "db_error"
        /\ Len(req[p].val.top) > 1
        /\ jcs # <<>>

\* C16: the interview_link_token values of the stored InterviewSessions are
\* pairwise distinct.
C16_TokensDistinct ==
    \A a, b \in 1..Len(invs) : invs[a].token = invs[b].token => a = b

\* C16 witness: the sessions of two publish calls are stored.
C16_Witness ==
    \E p \in Procs :
        /\ Finished(p, "publish") /\ req[p].res = "ok"
        /\ req[p].val.created = 1
        /\ Len(invs) = 2

\* C17 (requests served one at a time): a start call on a token whose
\* session has no started_at stores one and returns success; a start call on
\* a token whose session has a started_at returns success and changes
\* nothing; and no step changes a started_at that is set.
C17_StartIdempotent ==
    [][/\ \A i \in 1..Len(invs) :
             invs[i].started # Null => invs'[i].started = invs[i].started
       /\ \A p \in Procs, i \in 1..Len(invs) :
             (pc[p] = "idle" /\ pc'[p] # "idle" /\ req'[p].op = "start"
                 /\ req'[p].key = invs[i].token)
             => IF invs[i].started # Null
                THEN pc'[p] = "done" /\ req'[p].res = "ok" /\ invs' = invs
                ELSE pc'[p] = "start_commit"
       /\ \A p \in Procs :
             pc[p] = "start_commit"
             => /\ pc'[p] = "done" /\ req'[p].res = "ok"
                /\ invs'[req[p].aux].started = now]_vars

\* C17 witness: a start call on a started session has returned success
\* without writing, after the clock had moved on.
C17_Witness ==
    \E p \in Procs :
        /\ Finished(p, "start") /\ req[p].res = "ok" /\ ~req[p].val.wrote
        /\ req[p].val.started < now
        /\ \E i \in 1..Len(invs) :
              invs[i].token = req[p].key /\ invs[i].started = req[p].val.started

\* a call of one of the two invoker operations has returned or raised
InvokerFinished(p) == Finished(p, "invoke") \/ Finished(p, "invoke_structured")

\* C18: a finished call of invoke_with_retry or invoke_structured_with_retry
\* has made at most two model attempts; with a key configured it made one
\* attempt when the first succeeded, and two when the first failed, the
\* second with a client built for it; it returns when its last attempt
\* succeeded and raises when two attempts failed.
C18_AtMostTwoAttempts ==
    \A p \in Procs :
        InvokerFinished(p)
        => LET a == req[p].val
           IN  /\ Len(a) <= 2
               /\ llm.keys > 0
                  => /\ Len(a) >= 1
                     /\ a[1].ok => (Len(a) = 1 /\ req[p].res = "ok")
                     /\ ~a[1].ok
                        => /\ Len(a) = 2
                           /\ req[p].res = (IF a[2].ok THEN "ok" ELSE "raise")
                           /\ a[2].key = llm.key

\* C18 witness: both attempts of a call failed and the error was raised.
C18_Witness ==
    \E p \in Procs :
        /\ InvokerFinished(p) /\ req[p].res = "raise"
        /\ Len(req[p].val) = 2 /\ ~req[p].val[1].ok /\ ~req[p].val[2].ok

\* C19: with n keys configured, while fewer than MaxCalls clients have been
\* built the k-th get_llm call was given key number (k - 1) mod n; and the
\* retry of a finished invoker call used the key that follows the key of the
\* failed attempt, a different one when n >= 2.
C19_RoundRobin ==
    /\ (llm.keys > 0 /\ llm.calls \in 1..(MaxCalls - 1))
       => llm.key = (llm.calls - 1) % llm.keys
    /\ \A p \in Procs :
          (InvokerFinished(p) /\ Len(req[p].val) = 2)
          => /\ req[p].val[2].key = (req[p].val[1].key + 1) % llm.keys
             /\ llm.keys >= 2 => req[p].val[2].key # req[p].val[1].key

\* C19 witness: with two keys, the third client was built for a retry and
\* got the first key again.
C19_Witness ==
    \E p \in Procs :
        /\ InvokerFinished(p) /\ Len(req[p].val) = 2
        /\ llm.keys = 2 /\ llm.calls = 3
        /\ req[p].val[1].key = 1 /\ req[p].val[2].key = 0

\* C20: a chat turn ends in the model-failure error only after two model
\* attempts have failed.
C20_ChatRetriesOnce ==
    \A p \in Procs :
        (Finished(p, "chat") /\ req[p].res = "llm_failed" /\ llm.keys > 0)
        => Len(req[p].val) = 2

\* C21 (requests served one at a time): a complete call whose scoring
\* failed on both model attempts returns success, having stored the
\* transcript it was given and the current time as ended_at and
\* interview_completed_at, with the score of the session and of the
\* JobCandidate null.
C21_CompleteSurvivesScoringFailure ==
    [][\A p \in Procs :
          (pc[p] = "complete_commit" /\ pc'[p] = "done" /\ req'[p].val.failed)
          => LET i == req[p].aux
             IN  /\ req'[p].res = "ok"
                 /\ invs'[i].transcript = (IF req[p].val = 0 THEN Null ELSE req[p].val)
                 /\ invs'[i].ended = now
                 /\ jcs'[invs[i].jc].completed = now
                 /\ invs'[i].score = Null
                 /\ jcs'[invs[i].jc].score = Null]_vars

\* C21 witness: a complete with a transcript whose scoring failed has
\* returned success.
C21_Witness ==
    \E p \in Procs :
        /\ Finished(p, "complete") /\ req[p].res = "ok" /\ req[p].val.failed
        /\ \E i \in 1..Len(invs) :
              /\ invs[i].token = req[p].key
              /\ invs[i].transcript # Null
              /\ invs[i].score = Null

\* C22: in every state, also with two complete calls in flight, the score of
\* each JobCandidate equals the score of its InterviewSession: both null or
\* both the same number.
C22_ScorePropagated ==
    \A i \in 1..Len(invs) :
        invs[i].jc \in 1..Len(jcs) => jcs[invs[i].jc].score = invs[i].score

\* C22 witness: a complete call has stored a score.
C22_Witness ==
    \E p \in Procs :
        /\ Finished(p, "complete") /\ req[p].res = "ok"
        /\ \E i \in 1..Len(invs) :
              /\ invs[i].token = req[p].key
              /\ invs[i].score # Null
              /\ jcs[invs[i].jc].score = invs[i].score

\* C23: after a respond call with interested = true has returned, when the
\* interview mastermind answered with a free-text list of questions that
\* parses to a non-empty list, the questions stored on the session are a
\* non-empty list.
C23_RespondStoresQuestions ==
    \A p \in Procs :
        (Finished(p, "respond") /\ req[p].val.interested
            /\ req[p].val.reply.kind = "text" /\ req[p].val.reply.list # 0)
        => /\ req[p].res = "ok"
           /\ \A i \in SessionOf(req[p].key) : invs[i].questions # 0

\* the places of the text whose line is one of the kinds
PlacesOf(text, kinds) == {i \in 1..Len(text) : text[i].kind \in kinds}

\* the places of the lines the result is to be drawn from: those starting
\* with a digit or a dash when there is one, else the non-empty ones
Wanted(text) ==
    IF PlacesOf(text, {"digit", "dash"}) # {}
    THEN PlacesOf(text, {"digit", "dash"})
    ELSE PlacesOf(text, {"digit", "dash", "other"})

\* C24: the result of question parsing holds, trimmed and in the order of
\* the input, the first lines of those starting with a digit or a dash when
\* there is such a line (the others are dropped), else of the non-empty
\* lines: all of them up to 10, never more than 10; it is empty for a text
\* that is empty or white space only.
C24_ParseQuestions ==
    \A p \in Procs :
        Finished(p, "parse") =>
            LET text == req[p].val.text
                out  == req[p].val.questions
            IN  /\ Len(out) = Min(Cardinality(Wanted(text)), 10)
                /\ \A i \in 1..Len(out) :
                      /\ out[i].body \in Wanted(text)
                      /\ out[i] = Line(out[i].body, text[out[i].body].kind, FALSE)
                      /\ Cardinality({j \in Wanted(text) : j < out[i].body}) = i - 1
                /\ PlacesOf(text, {"digit", "dash", "other"}) = {} => out = <<>>

\* C24 witness: a text of more than 10 lines starting with a digit and one
\* other non-empty line was parsed to 10 entries.
C24_Witness ==
    \E p \in Procs :
        /\ Finished(p, "parse")
        /\ Cardinality(PlacesOf(req[p].val.text, {"digit", "dash"})) > 10
        /\ PlacesOf(req[p].val.text, {"other"}) # {}
        /\ Len(req[p].val.questions) = 10

\* a join call of p that found its session and was not turned away has just
\* left the select step
JoinAdmitted(p, i) ==
    /\ pc[p] = "idle" /\ pc'[p] # "idle"
    /\ req'[p].op = "join"
    /\ i \in SessionByToken(req'[p].key)
    /\ invs[i].jc \in 1..Len(jcs)
    /\ jcs[invs[i].jc].completed = Null

\* C25 (requests served one at a time): a join on a valid token of an
\* interview not yet completed returns the stored questions, with no request
\* to the interview mastermind, when the session has questions, and goes on
\* to prepare them when it has none; and when the prepared text parses to a
\* non-empty list, that list is returned and is what the session holds once
\* the call has returned.
C25_JoinPreparesQuestions ==
    [][\A p \in Procs :
        /\ \A i \in 1..Len(invs) :
              JoinAdmitted(p, i) =>
                  IF invs[i].questions # 0
                  THEN /\ pc'[p] = "done" /\ req'[p].res = "ok"
                       /\ req'[p].val = JoinOutcome(invs[i].questions, NoCall)
                       /\ invs' = invs
                  ELSE pc'[p] = "join_questions"
        /\ (pc[p] = "join_questions" /\ pc'[p] = "done" /\ req'[p].val.questions # 0)
           => /\ req'[p].res = "ok"
              /\ req'[p].val.reply # NoCall
              /\ \A i \in SessionByToken(req'[p].key) :
                    invs'[i].questions = req'[p].val.questions
      ]_vars

\* C25 witness: a join has prepared a non-empty list for a session that had
\* none, and the session holds it.
C25_Witness ==
    \E p \in Procs :
        /\ Finished(p, "join") /\ req[p].res = "ok"
        /\ req[p].val.reply.kind = "object_result"
        /\ req[p].val.questions # 0
        /\ \A i \in SessionByToken(req[p].key) : invs[i].questions = req[p].val.questions

\* C26 (requests served one at a time): every step of an update call on a
\* job that is published or closed leaves the job's title, markdown
\* description and structured description as they were, and the call ends
\* rejected as not a draft.
C26_UpdateOnlyDraft ==
    [][\A p \in Procs :
        (/\ pc[p] \in {"idle", "update_commit"} /\ pc'[p] # pc[p]
         /\ req'[p].op = "update"
         /\ req'[p].key \in 1..Len(jobs)
         /\ jobs[req'[p].key].status \in {"published", "closed"})
        => /\ pc'[p] = "done" /\ req'[p].res = "not_draft"
           /\ jobs'[req'[p].key].title = jobs[req'[p].key].title
           /\ jobs'[req'[p].key].md = jobs[req'[p].key].md
           /\ jobs'[req'[p].key].schema = jobs[req'[p].key].schema
      ]_vars

\* C26 witness: an update of a closed job was rejected.
C26_Witness ==
    \E p \in Procs :
        /\ Finished(p, "update") /\ req[p].res = "not_draft"
        /\ jobs[req[p].key].status = "closed"

\* the payloads an agent is to answer with an error value: an unknown
\* action, a missing required field, text that is not JSON, or JSON that is
\* not an object
BadPayload(payload) ==
    \/ payload.json \in {"invalid"} \cup NotObjects
    \/ payload.action \in {"none", "other"}
    \/ payload.action = "ingest_resume" /\ payload.resume_text # "text"
    \/ payload.action = "best_match" /\ payload.job_description # "text"

\* C27: the resume mastermind's ainvoke returns an error value, and does not
\* raise, on every payload with an unknown action, a missing required
\* field, text that is not JSON, or JSON that is not an object.
C27_AinvokeReturnsError ==
    \A p \in Procs :
        (Finished(p, "resume_ainvoke") /\ BadPayload(req[p].val.payload))
        => req[p].res = "error"

\* C28: after an ingest_resume with a non-empty text whose structured
\* extraction returned an instance, the output carries a structured resume
\* record and a profile, and the entry appended to the index is the
\* structured record.
C28_IngestStoresStructured ==
    \A p \in Procs :
        (/\ Finished(p, "resume_ainvoke")
         /\ req[p].val.payload.action = "ingest_resume"
         /\ req[p].val.payload.resume_text = "text"
         /\ req[p].val.extracted)
        => /\ req[p].res = "ok"
           /\ req[p].val.out.resume /\ req[p].val.out.profile
           /\ resumes # <<>> /\ resumes[Len(resumes)] = "structured"

\* C29: what a call of parse_with_llm has logged and printed is what the
\* same call writes with any other values of the keys in a key file of the
\* same size: no key value shows in it.
C29_NoCredentialInOutput ==
    \A p \in Procs :
        Finished(p, "parse_with_llm") =>
            \A other \in [1..Len(req[p].val.keys) -> 1..MaxSecret] :
                Written(llm, req[p].val.schema, other, req[p].val.outs,
                        req[p].val.attempts, req[p].val.failed)
                    = req[p].val.written

\* C30: a chat turn, answered or rejected, changes no field of any Job,
\* JobCandidate, InterviewSession or CandidateProfile row.
C30_ChatStateless ==
    [][\A p \in Procs :
        (pc[p] = "idle" /\ pc'[p] = "done" /\ req'[p].op = "chat")
        => <<profiles, jobs, jcs, invs>>' = <<profiles, jobs, jcs, invs>>
      ]_vars

\* C30 witness: a chat turn was answered for a session that has started and
\* holds questions.
C30_Witness ==
    \E p \in Procs :
        /\ Finished(p, "chat") /\ req[p].res = "ok"
        /\ \E i \in SessionByToken(req[p].key) :
              invs[i].started # Null /\ invs[i].questions # 0

\* C31: the step of a publish or respond call that follows its commit and
\* ends the call returns success, leaves the jobs and job_candidates tables
\* as the commit left them, and has not run the delivery of a notification
\* to its end: the response does not wait for it.
C31_SideEffectsOffRequest ==
    [][\A p \in Procs :
          (pc[p] \in {"publish_notify", "respond_notify"} /\ pc'[p] # pc[p])
          => /\ pc'[p] = "done" /\ req'[p].res = "ok"
             /\ jobs' = jobs /\ jcs' = jcs
             /\ req'[p].val.notified = "none"]_vars

\* the replies with which question generation fails: the request to the
\* interview mastermind raises, its answer carries an error or nothing, or
\* interview_prepare_questions itself raises on it
GenerationFailed(ans) ==
    \/ ans.kind \in {"raise", "blank", "object_error", "object_other"}
    \/ interview_prepare_questions(ans).raises

\* C32 (requests served one at a time): a respond call with interested =
\* true whose question generation failed has returned success, the decision
\* of the row is interested and the session holds no questions.
C32_RespondSurvivesQuestionFailure ==
    \A p \in Procs :
        (Finished(p, "respond") /\ req[p].val.interested
            /\ GenerationFailed(req[p].val.reply))
        => /\ req[p].res = "ok"
           /\ jcs[req[p].key].decision = "interested"
           /\ \A i \in SessionOf(req[p].key) : invs[i].questions = 0

\* C33: after every step, a session whose ended_at is set has started_at
\* set (no session starts out ended), and no step writes the started_at of
\* a session whose ended_at is set.
C33_LifecycleOrdered ==
    [][\A i \in 1..Len(invs) :
          /\ invs'[i].ended # Null => invs'[i].started # Null
          /\ invs[i].ended # Null => invs'[i].started = invs[i].started]_vars

\* C34: in every reachable state no two JobCandidate rows carry the same
\* pair (job, candidate profile).
C34_OneRowPerPair ==
    \A a, b \in 1..Len(jcs) :
        (jcs[a].job = jcs[b].job /\ jcs[a].profile = jcs[b].profile) => a = b

\* C35: in every reachable state at most 3 JobCandidate rows of any one job
\* have selected_top_3 set.
C35_AtMostThreeSelected ==
    \A j \in 1..Len(jobs) :
        Cardinality({i \in RowsOfJob(j) : jcs[i].top3}) <= TopN

\* C36: in every reachable state where a job is closed, its rows with
\* selected_top_3 set are qualifying rows (completed interview with a
\* transcript), there are min(3, number of qualifying rows) of them, and
\* none of them has a lower score (null as 0) than a qualifying row that is
\* not selected.
C36_ClosedJobTop3 ==
    \A j \in 1..Len(jobs) :
        jobs[j].status = "closed"
        => /\ SelectedRows(j) \subseteq QualifyingRows(j)
           /\ Cardinality(SelectedRows(j)) = Min(TopN, Cardinality(QualifyingRows(j)))
           /\ \A a \in SelectedRows(j), b \in QualifyingRows(j) \ SelectedRows(j) :
                 NullAsZero(jcs[a].score) >= NullAsZero(jcs[b].score)

\* C37: in every reachable state a JobCandidate whose interview_completed_at
\* is set has candidate_decision = interested.
C37_CompletedWasInterested ==
    \A i \in 1..Len(jcs) :
        jcs[i].completed # Null => jcs[i].decision = "interested"

\* C38: no step replaces a non-empty stored question list of a session with
\* a different list.
C38_QuestionsKept ==
    [][\A i \in 1..Len(invs) :
          invs[i].questions # 0 => invs'[i].questions = invs[i].questions]_vars

\* C39: every step of a respond request with interested = false leaves the
\* sessions, the jobs, the profiles and the pending media tasks as they were,
\* changes in the job_candidates table at most the candidate_decision of the
\* row answered, to rejected, and never reaches the steps that prepare
\* questions, send the invitation or start the media task: the response
\* carries no capability call, no notification and no task.
C39_RejectChangesOnlyDecision ==
    [][\A p \in Procs :
          (/\ pc'[p] # pc[p]
           /\ req'[p].op = "respond"
           /\ ~req'[p].val.interested)
          => /\ pc'[p] \in {"respond_commit", "done"}
             /\ invs' = invs /\ tasks' = tasks
             /\ jobs' = jobs /\ profiles' = profiles
             /\ \/ jcs' = jcs
                \/ jcs' = [jcs EXCEPT ![req'[p].key].decision = "rejected"]
             /\ pc[p] = "respond_commit"
                => /\ req'[p].res = "ok"
                   /\ jcs'[req'[p].key].decision = "rejected"
             /\ req'[p].val.reply = NoCall
             /\ req'[p].val.notified = "none"
             /\ ~req'[p].val.task]_vars

\* C39 witness: a respond with interested = false has returned success on a
\* row that now carries the decision rejected, next to a session of that row.
C39_Witness ==
    \E p \in Procs :
        /\ Finished(p, "respond") /\ req[p].res = "ok"
        /\ ~req[p].val.interested
        /\ jcs[req[p].key].decision = "rejected"
        /\ SessionOf(req[p].key) # {}

====
